---- MODULE Spec2Model ----
(***************************************************************************)
(* Model of the quaternion package (src/src/quaternion/vector3.py and      *)
(* src/src/quaternion/quaternion.py).                                      *)
(*                                                                         *)
(* The package is a library of pure functions over two value classes.     *)
(* A behaviour of the model is one call of one operation on freshly        *)
(* constructed operands: the state records which operation was called      *)
(* (op), its receiver and arguments (self, other, arg) and the outcome     *)
(* (result), which is either a returned Python value or a raised           *)
(* exception.                                                              *)
(*                                                                         *)
(* A second specification, HeapSpec, follows sequences of calls on         *)
(* instances with identity: heap holds the instances constructed so far,   *)
(* in the order of their construction, and self, other and result refer    *)
(* to them by their position.                                              *)
(*                                                                         *)
(* Numbers.  Python ints are exact.  Python floats are modelled by the     *)
(* exact real value they approximate: a number is (n/d)*sqrt(r) with n an  *)
(* integer, d a positive integer and r a square-free positive integer,     *)
(* kept in lowest terms.  This set is closed under the products, quotients *)
(* and square roots the package computes, and under the sums it computes   *)
(* (which only ever add numbers with the same radical).  Rounding error is *)
(* not modelled, except for the floats at the edge of binary64 precision   *)
(* described with Round53 below; the int/float distinction is (field       *)
(* type).                                                                  *)
(***************************************************************************)
EXTENDS Integers, Sequences, FiniteSets, TLC

VARIABLES op, self, other, arg, result, heap

vars == <<op, self, other, arg, result, heap>>

(***************************************************************************)
(* Bounds of the model.                                                    *)
(***************************************************************************)
\* HeapSpec constructs at most MaxHeap instances.
MaxHeap == 3

\* Constructed vectors and quaternions have integer components whose
\* absolute values sum to at most MaxAbsSum.
MaxAbsSum == 2

(***************************************************************************)
(* Exact arithmetic on numbers (n/d)*sqrt(r).                              *)
(***************************************************************************)
Abs(i) == IF i < 0 THEN -i ELSE i

RECURSIVE Gcd(_, _)
Gcd(a, b) == IF b = 0 THEN a ELSE Gcd(b, a % b)

\* The largest s with s*s dividing m (m >= 1).
SquarePart(m) ==
    LET cands == {s \in 1..m : s <= m \div s /\ m % (s * s) = 0}
    IN  CHOOSE s \in cands : \A t \in cands : t <= s

\* The number (n/d)*sqrt(r) of Python type ty, in lowest terms; d > 0 and
\* r square-free are the caller's obligation.
MkNum(ty, n, d, r) ==
    IF n = 0
    THEN [type |-> ty, n |-> 0, d |-> 1, r |-> 1]
    ELSE LET g == Gcd(Abs(n), d)
         IN  [type |-> ty, n |-> n \div g, d |-> d \div g, r |-> r]

PyInt(i) == MkNum("int", i, 1, 1)
PyFloat(n, d) == MkNum("float", n, d, 1)
PyBool(b) == MkNum("bool", IF b THEN 1 ELSE 0, 1, 1)

IsNumber(v) == v.type \in {"int", "float", "bool"}

\* Python's numeric tower: the result of an arithmetic operator is a float
\* as soon as one operand is, and an int otherwise (bool is an int).
ArithType(a, b) ==
    IF a.type = "float" \/ b.type = "float" THEN "float" ELSE "int"

(***************************************************************************)
(* Floats at the edge of binary64 precision.  A float whose value is       *)
(*     n + tail[1]*2^-53 + tail[2]*2^-106 + ...                            *)
(* with small integer coefficients carries the extra field tail (without   *)
(* trailing zeros); such floats only meet numbers with d = 1 and r = 1.    *)
(* Their sums and products are computed exactly as polynomials in 2^-53    *)
(* (a sequence p holds the coefficient of 2^(-53*(k-1)) in p[k]) and then  *)
(* rounded to 53 significant bits, nearest, ties to even, as the hardware  *)
(* does.  Sums and products of the other numbers of the model are small    *)
(* enough to be exact in binary64.  Floats with a tail are constructed     *)
(* only as coordinates of the points given to from_plane, so they reach    *)
(* only the differences of from_plane and the products and differences of  *)
(* cross: those use NumSubRounded and NumMulRounded, which are NumSub and  *)
(* NumMul on the other numbers.                                            *)
(***************************************************************************)
HasTail(a) == "tail" \in DOMAIN a

Poly(a) == IF HasTail(a) THEN <<a.n>> \o a.tail ELSE <<a.n>>

PolyAt(p, k) == IF k \in DOMAIN p THEN p[k] ELSE 0

PolyAdd(p, q) ==
    [k \in 1..(IF Len(p) < Len(q) THEN Len(q) ELSE Len(p)) |->
        PolyAt(p, k) + PolyAt(q, k)]

PolyNeg(p) == [k \in DOMAIN p |-> -p[k]]

\* sum over i..Len(p) of p[i] * q[k + 1 - i]
RECURSIVE Convolve(_, _, _, _)
Convolve(p, q, k, i) ==
    IF i > Len(p) THEN 0
    ELSE p[i] * PolyAt(q, k + 1 - i) + Convolve(p, q, k, i + 1)

PolyMul(p, q) == [k \in 1..(Len(p) + Len(q) - 1) |-> Convolve(p, q, k, 1)]

RECURSIVE StripZeros(_)
StripZeros(t) ==
    IF t = <<>> THEN t
    ELSE IF t[Len(t)] = 0 THEN StripZeros(SubSeq(t, 1, Len(t) - 1))
    ELSE t

\* the float with the (representable) value p
MkDouble(p) ==
    IF StripZeros(Tail(p)) = <<>> THEN MkNum("float", p[1], 1, 1)
    ELSE [type |-> "float", n |-> p[1], d |-> 1, r |-> 1,
          tail |-> StripZeros(Tail(p))]

Sign(i) == IF i < 0 THEN -1 ELSE IF i > 0 THEN 1 ELSE 0

\* floor(log2(m)) for m >= 1
Log2(m) == CHOOSE k \in 0..30 : 2^k <= m /\ m < 2^(k + 1)

\* the first of the indices ks
First(ks) == CHOOSE k \in ks : \A m \in ks : k <= m

NonZeros(p) == {k \in DOMAIN p : p[k] # 0}

\* the sign of what follows the terms j and j + 1 of p
RestSign(p, j) ==
    IF {k \in NonZeros(p) : k > j + 1} = {} THEN 0
    ELSE Sign(p[First({k \in NonZeros(p) : k > j + 1})])

\* The binary64 nearest to a magnitude 2^(-53*(j-1)) * (A + B*2^-53 + ...)
\* with A >= 1 and the sign of the dots being rest.  The magnitude lies in
\* the binade of A (the one below when A is a power of two and what follows
\* is negative), so one unit in the last place is Ulp * 2^-53 at the scale
\* of A; A is a multiple of it, and B is rounded to the multiple
\* RoundedUnits * Ulp, to the nearest, ties to the even significand.
Ulp(A, B, rest) ==
    IF A = 2^Log2(A) /\ (B < 0 \/ (B = 0 /\ rest < 0))
    THEN 2^Log2(A)
    ELSE 2^(Log2(A) + 1)

RoundedUnits(B, U, rest) ==
    IF 2 * (B % U) < U THEN B \div U
    ELSE IF 2 * (B % U) > U THEN (B \div U) + 1
    ELSE IF rest > 0 THEN (B \div U) + 1
    ELSE IF rest < 0 THEN B \div U
    ELSE IF (B \div U) % 2 = 0 THEN B \div U
    ELSE (B \div U) + 1

RoundMagnitude(j, sgn, A, B, rest) ==
    MkDouble([k \in 1..(j + 1) |->
                 IF k = j THEN sgn * A
                 ELSE IF k = j + 1
                      THEN sgn * RoundedUnits(B, Ulp(A, B, rest), rest)
                               * Ulp(A, B, rest)
                      ELSE 0])

\* the binary64 nearest to the value p, j being its leading term
Round53(p) ==
    IF NonZeros(p) = {} THEN MkNum("float", 0, 1, 1)
    ELSE LET j == First(NonZeros(p))
         IN  RoundMagnitude(j, Sign(p[j]), Abs(p[j]),
                            Sign(p[j]) * PolyAt(p, j + 1),
                            Sign(p[j]) * RestSign(p, j))

\* a * b
NumMul(a, b) ==
    LET g == Gcd(a.r, b.r)
    IN  MkNum(ArithType(a, b), a.n * b.n * g, a.d * b.d,
              (a.r \div g) * (b.r \div g))

\* -a
NumNeg(a) == MkNum(ArithType(a, a), -a.n, a.d, a.r)

\* a + b, for operands with the same radical (or a zero operand)
NumAdd(a, b) ==
    IF a.n = 0 THEN MkNum(ArithType(a, b), b.n, b.d, b.r)
    ELSE IF b.n = 0 THEN MkNum(ArithType(a, b), a.n, a.d, a.r)
    ELSE MkNum(ArithType(a, b), a.n * b.d + b.n * a.d, a.d * b.d, a.r)

\* a - b
NumSub(a, b) == NumAdd(a, NumNeg(b))

\* a * b and a - b where an operand may carry a tail
NumMulRounded(a, b) ==
    IF HasTail(a) \/ HasTail(b) THEN Round53(PolyMul(Poly(a), Poly(b)))
    ELSE NumMul(a, b)

NumSubRounded(a, b) ==
    IF HasTail(a) \/ HasTail(b)
    THEN Round53(PolyAdd(Poly(a), PolyNeg(Poly(b))))
    ELSE NumSub(a, b)

(***************************************************************************)
(* Square roots in binary64.  math.sqrt returns the float nearest to the   *)
(* root, and the product of two such roots is rounded again, so the        *)
(* product of the lengths of two parallel vectors can fall below the       *)
(* magnitude of their dot product.  Significands of 53 bits and their      *)
(* products do not fit TLC's integers: a natural number is held as the     *)
(* sequence of its digits to the base 2^14, the lowest first, and sums,    *)
(* differences and products are taken with PolyAdd, PolyNeg and PolyMul    *)
(* (now polynomials in 2^14) and carried.                                  *)
(***************************************************************************)
\* the digits of the value of p from place k on, c being carried in; the
\* last place receives everything carried out
RECURSIVE Carry(_, _, _)
Carry(p, k, c) ==
    IF k > Len(p) THEN <<c>>
    ELSE <<(p[k] + c) % 2^14>> \o Carry(p, k + 1, (p[k] + c) \div 2^14)

\* the digits of the value of p; of a negative value the last one is -1
Digits(p) == StripZeros(Carry(p \o <<0>>, 1, 0))

IsNegative(p) == Digits(p) # <<>> /\ Digits(p)[Len(Digits(p))] < 0

\* n * 2^t
Shifted(n, t) ==
    Digits([k \in 1..((t \div 14) + 1) |->
               IF k = (t \div 14) + 1 THEN n * 2^(t % 14) ELSE 0])

\* <<floor(sqrt(m * 4^k)), m * 4^k - floor(sqrt(m * 4^k))^2>> from
\* <<root, rest>> == <<floor(sqrt(m)), m - floor(sqrt(m))^2>>: each step
\* brings down two zero bits and tries the next bit of the root
RECURSIVE SqrtDigits(_, _, _)
SqrtDigits(root, rest, k) ==
    IF k = 0 THEN <<root, rest>>
    ELSE IF IsNegative(PolyAdd(PolyMul(<<4>>, rest),
                               PolyNeg(PolyAdd(PolyMul(<<4>>, root), <<1>>))))
    THEN SqrtDigits(Digits(PolyMul(<<2>>, root)),
                    Digits(PolyMul(<<4>>, rest)), k - 1)
    ELSE SqrtDigits(Digits(PolyAdd(PolyMul(<<2>>, root), <<1>>)),
                    Digits(PolyAdd(PolyMul(<<4>>, rest),
                                   PolyNeg(PolyAdd(PolyMul(<<4>>, root),
                                                   <<1>>)))),
                    k - 1)

\* math.sqrt(m) for an integer m >= 1: the float sig * 2^-exp with a
\* significand of 53 bits, floor(sqrt(m * 4^exp)) or, when the root is
\* past the middle (rest > root), the next integer
SqrtRounded(m) ==
    LET s == CHOOSE i \in 1..m : i * i <= m /\ m < (i + 1) * (i + 1)
        e == 52 - Log2(s)
        d == SqrtDigits(<<s>>, Digits(<<m - s * s>>), e)
    IN  [sig |-> IF IsNegative(PolyAdd(d[1], PolyNeg(d[2])))
                 THEN Digits(PolyAdd(d[1], <<1>>))
                 ELSE d[1],
         exp |-> e]

\* math.sqrt(m) * math.sqrt(n) < s for integers with m * n = s * s, that
\* is |dot / (sqrt(m) * sqrt(n))| > 1 when |dot| = s.  With s in the
\* binade of 2^b, the floats just below s are 2^(b - 52) apart (2^(b - 53)
\* when s = 2^b); the exact product x of the two roots is rounded below s
\* when it is below the middle of s and the float before it (in the
\* middle it is rounded to s, whose significand is even).
RootsBelow(m, n, s) ==
    LET x == SqrtRounded(m)
        y == SqrtRounded(n)
        half == IF s = 2^Log2(s) THEN 54 ELSE 53
        middle == PolyAdd(Shifted(s, x.exp + y.exp),
                          PolyNeg(Shifted(1, x.exp + y.exp + Log2(s) - half)))
    IN  IsNegative(PolyAdd(PolyMul(x.sig, y.sig), PolyNeg(middle)))

\* a / b for b # 0 (true division: always a float)
NumDiv(a, b) ==
    LET inv == MkNum("float", (IF b.n < 0 THEN -1 ELSE 1) * b.d,
                     Abs(b.n) * b.r, b.r)
    IN  NumMul(a, inv)

\* a ** 2
NumSquare(a) == NumMul(a, a)

\* math.sqrt(a) for a rational a >= 0
NumSqrt(a) ==
    IF a.n = 0 THEN MkNum("float", 0, 1, 1)
    ELSE LET m == a.n * a.d
             s == SquarePart(m)
         IN  MkNum("float", s, a.d, m \div (s * s))

\* abs(a)
NumAbs(a) == MkNum(ArithType(a, a), Abs(a.n), a.d, a.r)

\* a == b and a < b on numbers (the type does not matter: 1 == 1.0)
NumEq(a, b) == a.n = b.n /\ a.d = b.d /\ a.r = b.r

NumLt(a, b) ==
    LET sa == a.n * a.n * a.r * b.d * b.d
        sb == b.n * b.n * b.r * a.d * a.d
    IN  IF a.n < 0 /\ b.n >= 0 THEN TRUE
        ELSE IF a.n >= 0 /\ b.n < 0 THEN FALSE
        ELSE IF a.n >= 0 THEN sa < sb
        ELSE sb < sa

\* max(a, b, c): the first of the largest arguments
NumMax3(a, b, c) ==
    LET m == IF NumLt(a, b) THEN b ELSE a
    IN  IF NumLt(m, c) THEN c ELSE m

IsZero(a) == a.n = 0

(***************************************************************************)
(* Python values and outcomes of a call.                                   *)
(***************************************************************************)
None == [type |-> "NoneType"]
NotImplemented == [type |-> "NotImplementedType"]
PyStr(s) == [type |-> "str", s |-> s]
PyTuple(items) == [type |-> "tuple", items |-> items]

Return(v) == [kind |-> "return", val |-> v]
Raise(e) == [kind |-> "raise", exc |-> e]

Returned(o) == o.kind = "return"

\* the outcome of a method that returned NotImplemented
IsNotImplemented(o) == Returned(o) /\ o.val.type = "NotImplementedType"


\* Python's binary operator a * b, defined after the classes whose __mul__
\* and __rmul__ it dispatches to.
RECURSIVE PyMul(_, _)

(***************************************************************************)
(* class Vector3 (vector3.py).  Components of a constructed vector are     *)
(* numbers; a method whose code cannot raise on such a vector is an        *)
(* operator returning the value, any other returns an outcome.             *)
(***************************************************************************)
Vector3(x, y, z) == [type |-> "Vector3", x |-> x, y |-> y, z |-> z]

\* The attributes instances of Vector3 have: the three fields __init__
\* sets, what the class body defines (__hash__ is set by the definition of
\* __eq__), and what every instance of a class has from object.
Vector3Attrs ==
    {"x", "y", "z", "__init__", "norm", "scale", "normalize", "add",
     "subtract", "dot", "cross", "angle", "copy", "get", "__add__",
     "__sub__", "__mul__", "__rmul__", "__neg__", "__abs__", "__eq__",
     "__hash__", "_to_string", "__str__", "__repr__", "from_plane",
     "__class__", "__delattr__", "__dict__", "__dir__", "__doc__",
     "__format__", "__ge__", "__getattribute__", "__getstate__", "__gt__",
     "__init_subclass__", "__le__", "__lt__", "__module__", "__ne__",
     "__new__", "__reduce__", "__reduce_ex__", "__setattr__", "__sizeof__",
     "__subclasshook__", "__weakref__"}

Vector3_norm(v, norm_type) ==
    IF norm_type.type = "str"
    THEN Return(NumMax3(NumAbs(v.x), NumAbs(v.y), NumAbs(v.z)))
    ELSE IF norm_type.type \in {"int", "bool"}
    THEN IF NumEq(norm_type, PyInt(1))
         THEN Return(NumAdd(NumAdd(NumAbs(v.x), NumAbs(v.y)), NumAbs(v.z)))
         ELSE IF NumEq(norm_type, PyInt(2))
         THEN Return(NumSqrt(NumAdd(NumAdd(NumSquare(v.x), NumSquare(v.y)),
                                    NumSquare(v.z))))
         ELSE Raise("ValueError")
    ELSE Raise("TypeError")

\* self.norm() with the default norm_type = 2, which cannot raise
Vector3_norm2(v) == Vector3_norm(v, PyInt(2)).val

Vector3_scale(v, factor) ==
    LET x == PyMul(v.x, factor)
        y == PyMul(v.y, factor)
        z == PyMul(v.z, factor)
    IN  IF ~Returned(x) THEN x
        ELSE IF ~Returned(y) THEN y
        ELSE IF ~Returned(z) THEN z
        ELSE Return(Vector3(x.val, y.val, z.val))

Vector3_normalize(v) ==
    LET norm == Vector3_norm2(v)
    IN  IF IsZero(norm) THEN Raise("ZeroDivisionError")
        ELSE Vector3_scale(v, NumDiv(PyInt(1), norm))

Vector3_add(v, o) ==
    Vector3(NumAdd(v.x, o.x), NumAdd(v.y, o.y), NumAdd(v.z, o.z))

Vector3_subtract(v, o) ==
    Vector3(NumSub(v.x, o.x), NumSub(v.y, o.y), NumSub(v.z, o.z))

Vector3_dot(v, o) ==
    NumAdd(NumAdd(NumMul(v.x, o.x), NumMul(v.y, o.y)), NumMul(v.z, o.z))

\* Vector3_cross with the sign of the last product slipped
Vector3_cross_SignSlip(v, o) ==
    Vector3(NumSubRounded(NumMulRounded(v.y, o.z), NumMulRounded(v.z, o.y)),
            NumSubRounded(NumMulRounded(v.z, o.x), NumMulRounded(v.x, o.z)),
            NumAdd(NumMulRounded(v.x, o.y), NumMulRounded(v.y, o.x)))

Vector3_cross(v, o) ==
    Vector3(NumSubRounded(NumMulRounded(v.y, o.z), NumMulRounded(v.z, o.y)),
            NumSubRounded(NumMulRounded(v.z, o.x), NumMulRounded(v.x, o.z)),
            NumSubRounded(NumMulRounded(v.x, o.y), NumMulRounded(v.y, o.x)))

\* math.acos(c) and its conversion to degrees are kept symbolic: the float
\* acos(c), times 180/pi when deg.
Acos(c, deg) == [type |-> "float", acos |-> c, deg |-> deg]

\* math.acos(v.dot(o) / (v.norm() * o.norm())) raises ValueError (math
\* domain error): the float quotient is outside [-1, 1].  The exact
\* quotient is a cosine; when it is not 1 or -1 it is, for the small
\* rationals of the model, further from them than rounding carries it.
\* When it is, v and o are parallel, and with a and b the squared lengths
\* the float quotient is beyond when the product of the float roots of a
\* and b is below |dot| (the squared lengths and the dot product are
\* exact; a.d and b.d are powers of two, so sqrt(a) is sqrt(a.n * a.d)
\* divided by a.d exactly).
AcosDomainError(v, o) ==
    LET c == NumDiv(Vector3_dot(v, o),
                    NumMul(Vector3_norm2(v), Vector3_norm2(o)))
        a == Vector3_dot(v, v)
        b == Vector3_dot(o, o)
    IN  /\ Abs(c.n) = 1 /\ c.d = 1 /\ c.r = 1
        /\ RootsBelow(a.n * a.d, b.n * b.d,
                      (Abs(Vector3_dot(v, o).n) * a.d * b.d)
                          \div Vector3_dot(v, o).d)

Vector3_angle(v, o, unit) ==
    IF unit.type = "str"
    THEN LET length_v1 == Vector3_norm2(v)
             length_v2 == Vector3_norm2(o)
             den == NumMul(length_v1, length_v2)
         IN  IF IsZero(den) THEN Raise("ZeroDivisionError")
             ELSE IF AcosDomainError(v, o) THEN Raise("ValueError")
             ELSE IF unit.s = "deg"
             THEN Return(Acos(NumDiv(Vector3_dot(v, o), den), TRUE))
             ELSE IF unit.s = "rad"
             THEN Return(Acos(NumDiv(Vector3_dot(v, o), den), FALSE))
             ELSE Raise("ValueError")
    ELSE Raise("TypeError")

Vector3_copy(v) == Vector3(v.x, v.y, v.z)

Vector3_get(v) == <<v.x, v.y, v.z>>

Vector3__add__(v, o) == Vector3_add(v, o)

Vector3__sub__(v, o) == Vector3_subtract(v, o)

Vector3__mul__(v, factor) == Vector3_scale(v, factor)

Vector3__rmul__(v, factor) == Vector3_scale(v, factor)

Vector3__neg__(v) == Vector3(NumNeg(v.x), NumNeg(v.y), NumNeg(v.z))

Vector3__abs__(v) == Vector3_norm2(v)

Vector3__eq__(v, o) ==
    IF o.type # "Vector3" THEN NotImplemented
    ELSE PyBool(NumEq(v.x, o.x) /\ NumEq(v.y, o.y) /\ NumEq(v.z, o.z))

\* Vector3_from_plane with the two edge vectors crossed in the other order
Vector3_from_plane_Swapped(point1, point2, point3) ==
    LET v12 == Vector3(NumSubRounded(point2[1], point1[1]),
                       NumSubRounded(point2[2], point1[2]),
                       NumSubRounded(point2[3], point1[3]))
        v13 == Vector3(NumSubRounded(point3[1], point1[1]),
                       NumSubRounded(point3[2], point1[2]),
                       NumSubRounded(point3[3], point1[3]))
    IN  Vector3_cross(v13, v12)

\* the points are 3-tuples of numbers
Vector3_from_plane(point1, point2, point3) ==
    LET v12 == Vector3(NumSubRounded(point2[1], point1[1]),
                       NumSubRounded(point2[2], point1[2]),
                       NumSubRounded(point2[3], point1[3]))
        v13 == Vector3(NumSubRounded(point3[1], point1[1]),
                       NumSubRounded(point3[2], point1[2]),
                       NumSubRounded(point3[3], point1[3]))
    IN  Vector3_cross(v12, v13)

\* module-level helper functions of vector3.py
dot(v1, v2) == Vector3_dot(v1, v2)

cross(v1, v2) == Vector3_cross(v1, v2)

angle(v1, v2, unit) ==
    IF unit.type = "str"
    THEN LET length_v1 == Vector3_norm2(v1)
             length_v2 == Vector3_norm2(v2)
             den == NumMul(length_v1, length_v2)
         IN  IF IsZero(den) THEN Raise("ZeroDivisionError")
             ELSE IF AcosDomainError(v1, v2) THEN Raise("ValueError")
             ELSE IF unit.s = "deg"
             THEN Return(Acos(NumDiv(Vector3_dot(v1, v2), den), TRUE))
             ELSE IF unit.s = "rad"
             THEN Return(Acos(NumDiv(Vector3_dot(v1, v2), den), FALSE))
             ELSE Raise("ValueError")
    ELSE Raise("TypeError")


(***************************************************************************)
(* class Quaternion (quaternion.py).  Components of a constructed          *)
(* quaternion are numbers.                                                 *)
(***************************************************************************)
Quaternion(w, x, y, z) ==
    [type |-> "Quaternion", w |-> w, x |-> x, y |-> y, z |-> z]

Quaternion_norm(q) ==
    NumSqrt(NumAdd(NumAdd(NumAdd(NumSquare(q.w), NumSquare(q.x)),
                          NumSquare(q.y)), NumSquare(q.z)))

\* factor is a number
Quaternion_scale(q, factor) ==
    Quaternion(NumMul(q.w, factor), NumMul(q.x, factor),
               NumMul(q.y, factor), NumMul(q.z, factor))

Quaternion_normalize(q) ==
    LET norm == Quaternion_norm(q)
    IN  IF IsZero(norm) THEN Raise("ZeroDivisionError")
        ELSE Return(Quaternion_scale(q, NumDiv(PyInt(1), norm)))

Quaternion_add(q, o) ==
    Quaternion(NumAdd(q.w, o.w), NumAdd(q.x, o.x),
               NumAdd(q.y, o.y), NumAdd(q.z, o.z))

Quaternion_subtract(q, o) ==
    Quaternion(NumSub(q.w, o.w), NumSub(q.x, o.x),
               NumSub(q.y, o.y), NumSub(q.z, o.z))

\* Quaternion_multiply with the sign of y1*x2 slipped in the z component
Quaternion_multiply_SignSlip(q, o) ==
    Quaternion(
        NumSub(NumSub(NumSub(NumMul(q.w, o.w), NumMul(q.x, o.x)),
                      NumMul(q.y, o.y)), NumMul(q.z, o.z)),
        NumSub(NumAdd(NumAdd(NumMul(q.w, o.x), NumMul(q.x, o.w)),
                      NumMul(q.y, o.z)), NumMul(q.z, o.y)),
        NumAdd(NumAdd(NumSub(NumMul(q.w, o.y), NumMul(q.x, o.z)),
                      NumMul(q.y, o.w)), NumMul(q.z, o.x)),
        NumAdd(NumAdd(NumAdd(NumMul(q.w, o.z), NumMul(q.x, o.y)),
                      NumMul(q.y, o.x)), NumMul(q.z, o.w)))

Quaternion_multiply(q, o) ==
    Quaternion(
        NumSub(NumSub(NumSub(NumMul(q.w, o.w), NumMul(q.x, o.x)),
                      NumMul(q.y, o.y)), NumMul(q.z, o.z)),
        NumSub(NumAdd(NumAdd(NumMul(q.w, o.x), NumMul(q.x, o.w)),
                      NumMul(q.y, o.z)), NumMul(q.z, o.y)),
        NumAdd(NumAdd(NumSub(NumMul(q.w, o.y), NumMul(q.x, o.z)),
                      NumMul(q.y, o.w)), NumMul(q.z, o.x)),
        NumAdd(NumSub(NumAdd(NumMul(q.w, o.z), NumMul(q.x, o.y)),
                      NumMul(q.y, o.x)), NumMul(q.z, o.w)))

Quaternion_conjugate(q) ==
    Quaternion(q.w, NumNeg(q.x), NumNeg(q.y), NumNeg(q.z))

\* Quaternion_inverse dividing by the norm instead of its square
Quaternion_inverse_ByNorm(q) ==
    LET norm == Quaternion_norm(q)
        q_conj == Quaternion_conjugate(q)
    IN  IF IsZero(norm) THEN Raise("ZeroDivisionError")
        ELSE Return(Quaternion_scale(q_conj, NumDiv(PyInt(1), norm)))

Quaternion_inverse(q) ==
    LET norm_squared == NumSquare(Quaternion_norm(q))
        q_conj == Quaternion_conjugate(q)
    IN  IF IsZero(norm_squared) THEN Raise("ZeroDivisionError")
        ELSE Return(Quaternion_scale(q_conj, NumDiv(PyInt(1), norm_squared)))

Quaternion_copy(q) == Quaternion(q.w, q.x, q.y, q.z)

Quaternion_get(q) == <<q.w, q.x, q.y, q.z>>

Quaternion__add__(q, o) == Quaternion_add(q, o)

Quaternion__sub__(q, o) == Quaternion_subtract(q, o)

Quaternion__mul__(q, o) ==
    IF o.type \in {"int", "float", "bool"}
    THEN Return(Quaternion_scale(q, o))
    ELSE IF o.type = "Vector3"
    THEN LET q_other == Quaternion(PyInt(0), o.x, o.y, o.z)
         IN  Return(Quaternion_multiply(q, q_other))
    ELSE IF o.type = "Quaternion"
    THEN Return(Quaternion_multiply(q, o))
    ELSE Return(NotImplemented)

\* Quaternion__rmul__ multiplying in the unreflected order
Quaternion__rmul__Unreflected(q, o) ==
    IF o.type \in {"int", "float", "bool"}
    THEN Return(Quaternion_scale(q, o))
    ELSE IF o.type = "Quaternion"
    THEN Return(Quaternion_multiply(q, o))
    ELSE Return(NotImplemented)

Quaternion__rmul__(q, o) ==
    IF o.type \in {"int", "float", "bool"}
    THEN Return(Quaternion_scale(q, o))
    ELSE IF o.type = "Quaternion"
    THEN Return(Quaternion_multiply(o, q))
    ELSE Return(NotImplemented)

Quaternion__truediv__(q, o) ==
    IF o.type \in {"int", "float", "bool"}
    THEN IF IsZero(o) THEN Raise("ZeroDivisionError")
         ELSE Return(Quaternion_scale(q, NumDiv(PyInt(1), o)))
    ELSE Return(NotImplemented)

Quaternion__abs__(q) == Quaternion_norm(q)

Quaternion__eq__(q, o) ==
    IF o.type # "Quaternion" THEN NotImplemented
    ELSE PyBool(NumEq(q.w, q.w) /\ NumEq(q.x, q.x)
                /\ NumEq(q.y, q.y) /\ NumEq(q.z, q.z))

Quaternion_scalar_part(q) == q.w

Quaternion_vector_part(q) == Vector3(q.x, q.y, q.z)

\* The two branches of transform: self * p * self.inverse() and
\* self * p * self.conjugate().  self * p is self.__mul__(p), a quaternion,
\* and so is its product with the third factor.
TransformByInverse(q, p) ==
    LET inv == Quaternion_inverse(q)
    IN  IF ~Returned(inv) THEN inv
        ELSE Quaternion__mul__(Quaternion__mul__(q, p).val, inv.val)

TransformByConjugate(q, p) ==
    Quaternion__mul__(Quaternion__mul__(q, p).val, Quaternion_conjugate(q))

\* Quaternion_transform without the branch for quaternions of norm # 1
Quaternion_transform_AlwaysConjugate(q, v) ==
    LET p == Quaternion(PyInt(0), v.x, v.y, v.z)
        t == TransformByConjugate(q, p)
    IN  IF ~Returned(t) THEN t
        ELSE Return(Vector3(t.val.x, t.val.y, t.val.z))

Quaternion_transform(q, v) ==
    LET p == Quaternion(PyInt(0), v.x, v.y, v.z)
        t == IF ~NumEq(Quaternion_norm(q), PyInt(1))
             THEN TransformByInverse(q, p)
             ELSE TransformByConjugate(q, p)
    IN  IF ~Returned(t) THEN t
        ELSE Return(Vector3(t.val.x, t.val.y, t.val.z))

\* An angle is k*pi for an integer k, so that the cosine and sine of its
\* half are the exact numbers math.cos and math.sin approximate.
PiTimes(k) == [type |-> "float", pi |-> k]

Cos(half_turns) ==
    LET m == half_turns % 4
    IN  PyFloat(IF m = 0 THEN 1 ELSE IF m = 2 THEN -1 ELSE 0, 1)

Sin(half_turns) ==
    LET m == half_turns % 4
    IN  PyFloat(IF m = 1 THEN 1 ELSE IF m = 3 THEN -1 ELSE 0, 1)

\* The quaternion built from the (normalized) axis, or the exception its
\* normalization raised.
AxisAngleResult(unit, half_angle) ==
    IF ~Returned(unit) THEN unit
    ELSE Return(Quaternion(Cos(half_angle),
                           NumMul(Sin(half_angle), unit.val.x),
                           NumMul(Sin(half_angle), unit.val.y),
                           NumMul(Sin(half_angle), unit.val.z)))

\* axis.length() looks up an attribute that Vector3 does not have.
Quaternion_from_axis_angle(axis, angle_) ==
    IF "length" \notin Vector3Attrs THEN Raise("AttributeError")
    ELSE AxisAngleResult(IF ~NumEq(Vector3_norm2(axis), PyInt(1))
                         THEN Vector3_normalize(axis)
                         ELSE Return(axis),
                         angle_.pi)

(***************************************************************************)
(* Python's operators on the values above.                                 *)
(***************************************************************************)
\* s repeated k times
RECURSIVE StrRepeat(_, _)
StrRepeat(s, k) == IF k <= 0 THEN "" ELSE s \o StrRepeat(s, k - 1)

\* type(a).__mul__(a, b): the left operand's own multiplication
LeftMul(a, b) ==
    IF IsNumber(a)
    THEN IF IsNumber(b) THEN Return(NumMul(a, b)) ELSE Return(NotImplemented)
    ELSE IF a.type = "Vector3" THEN Vector3__mul__(a, b)
    ELSE IF a.type = "Quaternion" THEN Quaternion__mul__(a, b)
    ELSE Return(NotImplemented)

\* type(b).__rmul__(b, a): the right operand's reflected multiplication
RightMul(a, b) ==
    IF b.type = "Vector3" THEN Vector3__rmul__(b, a)
    ELSE IF b.type = "Quaternion" THEN Quaternion__rmul__(b, a)
    ELSE Return(NotImplemented)

\* str's sequence repetition, tried when neither operand multiplies
SeqRepeat(a, b) ==
    IF a.type = "str" /\ b.type \in {"int", "bool"}
    THEN Return(PyStr(StrRepeat(a.s, b.n)))
    ELSE IF b.type = "str" /\ a.type \in {"int", "bool"}
    THEN Return(PyStr(StrRepeat(b.s, a.n)))
    ELSE Raise("TypeError")

PyMul(a, b) ==
    LET l == LeftMul(a, b)
    IN  IF ~IsNotImplemented(l) THEN l
        ELSE LET r == IF a.type # b.type THEN RightMul(a, b)
                      ELSE Return(NotImplemented)
             IN  IF ~IsNotImplemented(r) THEN r
                 ELSE SeqRepeat(a, b)


\* type(a).__eq__(a, b); the built-in types compare values of their own
\* kind and None compares by identity
LeftEq(a, b) ==
    IF a.type = "Quaternion" THEN Quaternion__eq__(a, b)
    ELSE IF a.type = "Vector3" THEN Vector3__eq__(a, b)
    ELSE IF IsNumber(a)
    THEN IF IsNumber(b) THEN PyBool(NumEq(a, b)) ELSE NotImplemented
    ELSE IF a.type = "str"
    THEN IF b.type = "str" THEN PyBool(a.s = b.s) ELSE NotImplemented
    ELSE IF b.type = a.type THEN PyBool(TRUE) ELSE NotImplemented

\* a == b: the left __eq__, then the reflected one, then identity; the two
\* operands of a call are distinct objects
PyEq(a, b) ==
    LET l == LeftEq(a, b)
    IN  IF l.type # "NotImplementedType" THEN l
        ELSE LET r == LeftEq(b, a)
             IN  IF r.type # "NotImplementedType" THEN r
                 ELSE PyBool(FALSE)

\* a != b: neither class defines __ne__, so object's inverts __eq__
PyNe(a, b) ==
    LET l == LeftEq(a, b)
    IN  IF l.type # "NotImplementedType" THEN PyBool(l.n = 0)
        ELSE LET r == LeftEq(b, a)
             IN  IF r.type # "NotImplementedType" THEN PyBool(r.n = 0)
                 ELSE PyBool(TRUE)

(***************************************************************************)
(* Instances.  A heap h is the sequence of the instances constructed so    *)
(* far; Ref(i) refers to h[i], and two references are the same instance    *)
(* exactly when their positions are equal.  A call on instances of a heap  *)
(* yields the heap after the call and the call's outcome, an instance in   *)
(* the outcome being given by reference.  No method of the package         *)
(* assigns to an attribute (only the two __init__ do, to the instance      *)
(* being constructed), and every instance a method returns comes from a    *)
(* constructor call made during the call.                                  *)
(***************************************************************************)
Ref(i) == [type |-> "ref", id |-> i]

IsRef(v) == v.type = "ref"

\* Vector3(...) or Quaternion(...) evaluated in heap h: __init__ fills a
\* new instance
Construct(h, v) ==
    [heap |-> Append(h, v), result |-> Return(Ref(Len(h) + 1))]

\* `return e` in heap h, where e evaluated to outcome: an instance was
\* constructed by e; any other value and an exception leave the heap alone
Outcome(h, outcome) ==
    IF Returned(outcome) /\ outcome.val.type \in {"Vector3", "Quaternion"}
    THEN Construct(h, outcome.val)
    ELSE [heap |-> h, result |-> outcome]

(***************************************************************************)
(* Inputs.                                                                 *)
(***************************************************************************)
Comp == (-MaxAbsSum)..MaxAbsSum

\* The vector and the quaternions of the package's tests (test_multiply,
\* test_transform), and a vector with float components.
TestVecs ==
    {Vector3(PyInt(2), PyInt(2), PyInt(2)),
     Vector3(PyFloat(1, 2), PyFloat(-3, 2), PyFloat(1, 1))}

TestQuats ==
    {Quaternion(PyInt(1), PyInt(2), PyInt(3), PyInt(4)),
     Quaternion(PyInt(-4), PyInt(3), PyInt(-2), PyInt(1))}

Vecs ==
    {Vector3(PyInt(t[1]), PyInt(t[2]), PyInt(t[3])) :
        t \in {u \in Comp \X Comp \X Comp :
                 Abs(u[1]) + Abs(u[2]) + Abs(u[3]) <= MaxAbsSum}}
    \cup TestVecs

Quats ==
    {Quaternion(PyInt(t[1]), PyInt(t[2]), PyInt(t[3]), PyInt(t[4])) :
        t \in {u \in Comp \X Comp \X Comp \X Comp :
                 Abs(u[1]) + Abs(u[2]) + Abs(u[3]) + Abs(u[4]) <= MaxAbsSum}}
    \cup TestQuats

\* points with integer coordinates
IntPoints ==
    {<<PyInt(t[1]), PyInt(t[2]), PyInt(t[3])>> :
        t \in {u \in Comp \X Comp \X Comp :
                 Abs(u[1]) + Abs(u[2]) + Abs(u[3]) <= MaxAbsSum}}

\* points with float coordinates, on two lines: three on the line through
\* (-2^-53, 0, 0) with direction (1 + 3 * 2^-53, 1, 0), three on the line
\* through the origin with direction (1, 3, 0); Round53(<<n, k>>) is the
\* float n + k * 2^-53
FloatPoints ==
    {<<Round53(<<0, -1>>), PyFloat(0, 1), PyFloat(0, 1)>>,
     <<Round53(<<1, 2>>), PyFloat(1, 1), PyFloat(0, 1)>>,
     <<Round53(<<3, 8>>), PyFloat(3, 1), PyFloat(0, 1)>>,
     <<Round53(<<0, -1>>), Round53(<<0, -3>>), PyFloat(0, 1)>>,
     <<PyFloat(1, 1), PyFloat(3, 1), PyFloat(0, 1)>>,
     <<PyFloat(2, 1), PyFloat(6, 1), PyFloat(0, 1)>>}

Scalars == {PyInt(-1), PyInt(0), PyInt(2), PyFloat(1, 2), PyBool(TRUE)}

NonNumeric == {PyStr("ab"), None}

Objects == Quats \cup Vecs

Operands == Objects \cup Scalars \cup NonNumeric

\* arguments tried for norm_type, unit and angle
Kinds ==
    {PyInt(1), PyInt(2), PyStr("inf"), PyStr("foo"), PyInt(0), PyInt(3),
     PyFloat(2, 1), PyBool(TRUE), None}

Units == {PyStr("rad"), PyStr("deg"), PyStr("grad"), PyInt(1), None}

Angles == {PiTimes(k) : k \in 0..3}

(***************************************************************************)
(* The calls.  For a method, self is the receiver; for an operator, self   *)
(* is the left operand and other the right one; for a static or free       *)
(* function self is None.                                                  *)
(***************************************************************************)
Init ==
    /\ op = "new"
    /\ self = None
    /\ other = None
    /\ arg = None
    /\ result = Return(None)
    /\ heap = <<>>

\* no call has been made yet
Ready == op = "new"

Call(name, s, o, a, r) ==
    /\ op' = name
    /\ self' = s
    /\ other' = o
    /\ arg' = a
    /\ result' = r
    /\ heap' = heap

Multiply ==
    /\ Ready
    /\ \E p \in Quats, q \in Quats :
        Call("multiply", p, q, None, Return(Quaternion_multiply(p, q)))

Inverse ==
    /\ Ready
    /\ \E q \in Quats : Call("inverse", q, None, None, Quaternion_inverse(q))

Transform ==
    /\ Ready
    /\ \E q \in Quats, v \in Vecs :
        Call("transform", q, v, None, Quaternion_transform(q, v))

FromAxisAngle ==
    /\ Ready
    /\ \E axis \in Vecs, a \in Angles :
        Call("from_axis_angle", None, axis, a,
             Quaternion_from_axis_angle(axis, a))

Equal ==
    /\ Ready
    /\ \E a \in Objects, b \in Operands :
        Call("==", a, b, None, Return(PyEq(a, b)))

NotEqual ==
    /\ Ready
    /\ \E a \in Objects, b \in Operands :
        Call("!=", a, b, None, Return(PyNe(a, b)))

\* a * b with at least one operand a vector or a quaternion
Times ==
    /\ Ready
    /\ \E a \in Operands, b \in Operands :
        /\ ~(a \notin Objects /\ b \notin Objects)
        /\ Call("*", a, b, None, PyMul(a, b))

QuaternionMul ==
    /\ Ready
    /\ \E q \in Quats, o \in Operands :
        Call("Quaternion.__mul__", q, o, None, Quaternion__mul__(q, o))

QuaternionRmul ==
    /\ Ready
    /\ \E q \in Quats, o \in Operands :
        Call("Quaternion.__rmul__", q, o, None, Quaternion__rmul__(q, o))

VectorMul ==
    /\ Ready
    /\ \E v \in Vecs, o \in Operands :
        Call("Vector3.__mul__", v, o, None, Vector3__mul__(v, o))

VectorRmul ==
    /\ Ready
    /\ \E v \in Vecs, o \in Operands :
        Call("Vector3.__rmul__", v, o, None, Vector3__rmul__(v, o))

Norm ==
    /\ Ready
    /\ \E v \in Vecs, k \in Kinds :
        Call("norm", v, None, k, Vector3_norm(v, k))

Angle ==
    /\ Ready
    /\ \E v \in Vecs, o \in Vecs, u \in Units :
        Call("angle", v, o, u, Vector3_angle(v, o, u))

AngleFunction ==
    /\ Ready
    /\ \E v1 \in Vecs, v2 \in Vecs, u \in Units :
        Call("angle()", v1, v2, u, angle(v1, v2, u))

Cross ==
    /\ Ready
    /\ \E v \in Vecs, o \in Vecs :
        Call("cross", v, o, None, Return(Vector3_cross(v, o)))

FromPlane ==
    /\ Ready
    /\ \E p1 \in IntPoints \cup FloatPoints,
          p2 \in IntPoints \cup FloatPoints,
          p3 \in IntPoints \cup FloatPoints :
        Call("from_plane", None, None,
             PyTuple(<<PyTuple(p1), PyTuple(p2), PyTuple(p3)>>),
             Return(Vector3_from_plane(p1, p2, p3)))

Next ==
    \/ Multiply
    \/ Inverse
    \/ Transform
    \/ FromAxisAngle
    \/ Equal
    \/ NotEqual
    \/ Times
    \/ QuaternionMul
    \/ QuaternionRmul
    \/ VectorMul
    \/ VectorRmul
    \/ Norm
    \/ Angle
    \/ AngleFunction
    \/ Cross
    \/ FromPlane

Spec == Init /\ [][Next]_vars

(***************************************************************************)
(* Sequences of calls on instances (HeapSpec).  Every step is one call of  *)
(* a constructor, a method, an operator or from_plane, on instances        *)
(* constructed by earlier steps.  A call that returns an instance          *)
(* constructs one, at least, and is taken while fewer than MaxHeap         *)
(* instances exist.                                                        *)
(***************************************************************************)
HeapVecs == {Vector3(PyInt(0), PyInt(2), PyInt(0))}

HeapQuats == {Quaternion(PyInt(1), PyInt(1), PyInt(1), PyInt(1))}

HeapScalars == {PyInt(2)}

HeapPoints == {<<PyInt(0), PyInt(0), PyInt(0)>>,
               <<PyInt(1), PyInt(0), PyInt(0)>>,
               <<PyInt(0), PyInt(1), PyInt(0)>>}

Vectors(h) == {i \in DOMAIN h : h[i].type = "Vector3"}

Quaternions(h) == {i \in DOMAIN h : h[i].type = "Quaternion"}

Deref(h, t) == IF IsRef(t) THEN h[t.id] ELSE t

\* a call that constructs an instance is made while there is room for it
HasRoom == Len(heap) < MaxHeap

Step(name, s, o, a, after) ==
    \E st \in {after} :
        /\ op' = name
        /\ self' = s
        /\ other' = o
        /\ arg' = a
        /\ result' = st.result
        /\ heap' = st.heap

NewVector3 ==
    /\ HasRoom
    /\ \E v \in HeapVecs :
        Step("Vector3", None, None, PyTuple(Vector3_get(v)),
             Construct(heap, v))

NewQuaternion ==
    /\ HasRoom
    /\ \E q \in HeapQuats :
        Step("Quaternion", None, None, PyTuple(Quaternion_get(q)),
             Construct(heap, q))

VectorScale ==
    /\ HasRoom
    /\ \E i \in Vectors(heap), f \in HeapScalars :
        Step("scale", Ref(i), None, f,
             Outcome(heap, Vector3_scale(heap[i], f)))

VectorNormalize ==
    /\ HasRoom
    /\ \E i \in Vectors(heap) :
        Step("normalize", Ref(i), None, None,
             Outcome(heap, Vector3_normalize(heap[i])))

VectorAdd ==
    /\ HasRoom
    /\ \E i \in Vectors(heap), j \in Vectors(heap) :
        Step("add", Ref(i), Ref(j), None,
             Construct(heap, Vector3_add(heap[i], heap[j])))

VectorSubtract ==
    /\ HasRoom
    /\ \E i \in Vectors(heap), j \in Vectors(heap) :
        Step("subtract", Ref(i), Ref(j), None,
             Construct(heap, Vector3_subtract(heap[i], heap[j])))

VectorDot ==
    \E i \in Vectors(heap), j \in Vectors(heap) :
        Step("dot", Ref(i), Ref(j), None,
             Outcome(heap, Return(Vector3_dot(heap[i], heap[j]))))

VectorCross ==
    /\ HasRoom
    /\ \E i \in Vectors(heap), j \in Vectors(heap) :
        Step("cross", Ref(i), Ref(j), None,
             Construct(heap, Vector3_cross(heap[i], heap[j])))

\* the module's function cross(v1, v2)
FunctionCross ==
    /\ HasRoom
    /\ \E i \in Vectors(heap), j \in Vectors(heap) :
        Step("cross()", Ref(i), Ref(j), None,
             Construct(heap, cross(heap[i], heap[j])))

VectorCopy ==
    /\ HasRoom
    /\ \E i \in Vectors(heap) :
        Step("copy", Ref(i), None, None,
             Construct(heap, Vector3_copy(heap[i])))

VectorGet ==
    \E i \in Vectors(heap) :
        Step("get", Ref(i), None, None,
             Outcome(heap, Return(PyTuple(Vector3_get(heap[i])))))

VectorPlus ==
    /\ HasRoom
    /\ \E i \in Vectors(heap), j \in Vectors(heap) :
        Step("+", Ref(i), Ref(j), None,
             Construct(heap, Vector3__add__(heap[i], heap[j])))

VectorMinus ==
    /\ HasRoom
    /\ \E i \in Vectors(heap), j \in Vectors(heap) :
        Step("-", Ref(i), Ref(j), None,
             Construct(heap, Vector3__sub__(heap[i], heap[j])))

VectorNegate ==
    /\ HasRoom
    /\ \E i \in Vectors(heap) :
        Step("neg", Ref(i), None, None,
             Construct(heap, Vector3__neg__(heap[i])))

VectorFromPlane ==
    /\ HasRoom
    /\ \E p1 \in HeapPoints, p2 \in HeapPoints, p3 \in HeapPoints :
        Step("from_plane", None, None,
             PyTuple(<<PyTuple(p1), PyTuple(p2), PyTuple(p3)>>),
             Construct(heap, Vector3_from_plane(p1, p2, p3)))

QuaternionScale ==
    /\ HasRoom
    /\ \E i \in Quaternions(heap), f \in HeapScalars :
        Step("scale", Ref(i), None, f,
             Construct(heap, Quaternion_scale(heap[i], f)))

QuaternionNormalize ==
    /\ HasRoom
    /\ \E i \in Quaternions(heap) :
        Step("normalize", Ref(i), None, None,
             Outcome(heap, Quaternion_normalize(heap[i])))

QuaternionAdd ==
    /\ HasRoom
    /\ \E i \in Quaternions(heap), j \in Quaternions(heap) :
        Step("add", Ref(i), Ref(j), None,
             Construct(heap, Quaternion_add(heap[i], heap[j])))

QuaternionSubtract ==
    /\ HasRoom
    /\ \E i \in Quaternions(heap), j \in Quaternions(heap) :
        Step("subtract", Ref(i), Ref(j), None,
             Construct(heap, Quaternion_subtract(heap[i], heap[j])))

QuaternionMultiply ==
    /\ HasRoom
    /\ \E i \in Quaternions(heap), j \in Quaternions(heap) :
        Step("multiply", Ref(i), Ref(j), None,
             Construct(heap, Quaternion_multiply(heap[i], heap[j])))

\* QuaternionConjugate negating the components of self in place and
\* returning self
QuaternionConjugate_InPlace ==
    /\ HasRoom
    /\ \E i \in Quaternions(heap) :
        Step("conjugate", Ref(i), None, None,
             [heap |-> [heap EXCEPT ![i] = Quaternion_conjugate(heap[i])],
              result |-> Return(Ref(i))])

QuaternionConjugate ==
    /\ HasRoom
    /\ \E i \in Quaternions(heap) :
        Step("conjugate", Ref(i), None, None,
             Construct(heap, Quaternion_conjugate(heap[i])))

QuaternionInverse ==
    /\ HasRoom
    /\ \E i \in Quaternions(heap) :
        Step("inverse", Ref(i), None, None,
             Outcome(heap, Quaternion_inverse(heap[i])))

QuaternionTransform ==
    /\ HasRoom
    /\ \E i \in Quaternions(heap), j \in Vectors(heap) :
        Step("transform", Ref(i), Ref(j), None,
             Outcome(heap, Quaternion_transform(heap[i], heap[j])))

QuaternionCopy ==
    /\ HasRoom
    /\ \E i \in Quaternions(heap) :
        Step("copy", Ref(i), None, None,
             Construct(heap, Quaternion_copy(heap[i])))

QuaternionGet ==
    \E i \in Quaternions(heap) :
        Step("get", Ref(i), None, None,
             Outcome(heap, Return(PyTuple(Quaternion_get(heap[i])))))

\* the property q.vector_part
QuaternionVectorPart ==
    /\ HasRoom
    /\ \E i \in Quaternions(heap) :
        Step("vector_part", Ref(i), None, None,
             Construct(heap, Quaternion_vector_part(heap[i])))

QuaternionPlus ==
    /\ HasRoom
    /\ \E i \in Quaternions(heap), j \in Quaternions(heap) :
        Step("+", Ref(i), Ref(j), None,
             Construct(heap, Quaternion__add__(heap[i], heap[j])))

QuaternionMinus ==
    /\ HasRoom
    /\ \E i \in Quaternions(heap), j \in Quaternions(heap) :
        Step("-", Ref(i), Ref(j), None,
             Construct(heap, Quaternion__sub__(heap[i], heap[j])))

QuaternionDivide ==
    /\ HasRoom
    /\ \E i \in Quaternions(heap), f \in HeapScalars :
        Step("/", Ref(i), f, None,
             Outcome(heap, Quaternion__truediv__(heap[i], f)))

\* a * b with an instance on at least one side and operands of the
\* annotated types: a vector takes a number as the other operand
Star ==
    /\ HasRoom
    /\ \E a \in {Ref(i) : i \in DOMAIN heap} \cup HeapScalars,
          b \in {Ref(i) : i \in DOMAIN heap} \cup HeapScalars :
        /\ IsRef(a) \/ IsRef(b)
        /\ Deref(heap, a).type = "Vector3" => IsNumber(b)
        /\ Deref(heap, b).type = "Vector3" =>
              IsNumber(a) \/ Deref(heap, a).type = "Quaternion"
        /\ Step("*", a, b, None,
                Outcome(heap, PyMul(Deref(heap, a), Deref(heap, b))))

EqualTo ==
    \E i \in DOMAIN heap, j \in DOMAIN heap :
        Step("==", Ref(i), Ref(j), None,
             Outcome(heap, Return(PyEq(heap[i], heap[j]))))

HeapNext ==
    \/ NewVector3
    \/ NewQuaternion
    \/ VectorScale
    \/ VectorNormalize
    \/ VectorAdd
    \/ VectorSubtract
    \/ VectorDot
    \/ VectorCross
    \/ FunctionCross
    \/ VectorCopy
    \/ VectorGet
    \/ VectorPlus
    \/ VectorMinus
    \/ VectorNegate
    \/ VectorFromPlane
    \/ QuaternionScale
    \/ QuaternionNormalize
    \/ QuaternionAdd
    \/ QuaternionSubtract
    \/ QuaternionMultiply
    \/ QuaternionConjugate
    \/ QuaternionInverse
    \/ QuaternionTransform
    \/ QuaternionCopy
    \/ QuaternionGet
    \/ QuaternionVectorPart
    \/ QuaternionPlus
    \/ QuaternionMinus
    \/ QuaternionDivide
    \/ Star
    \/ EqualTo

HeapSpec == Init /\ [][HeapNext]_vars


(***************************************************************************)
(* Vocabulary of the properties.                                           *)
(***************************************************************************)
IntQ(w, x, y, z) == Quaternion(PyInt(w), PyInt(x), PyInt(y), PyInt(z))

IntV(x, y, z) == Vector3(PyInt(x), PyInt(y), PyInt(z))

\* equality of the components as numbers
SameQuaternion(p, q) ==
    /\ p.type = "Quaternion" /\ q.type = "Quaternion"
    /\ NumEq(p.w, q.w) /\ NumEq(p.x, q.x) /\ NumEq(p.y, q.y) /\ NumEq(p.z, q.z)

SameVector(a, b) ==
    /\ a.type = "Vector3" /\ b.type = "Vector3"
    /\ IsNumber(a.x) /\ IsNumber(a.y) /\ IsNumber(a.z)
    /\ IsNumber(b.x) /\ IsNumber(b.y) /\ IsNumber(b.z)
    /\ NumEq(a.x, b.x) /\ NumEq(a.y, b.y) /\ NumEq(a.z, b.z)

IsTrue(v) == v.type = "bool" /\ v.n = 1

IsFalse(v) == v.type = "bool" /\ v.n = 0

NonZeroQuaternion(q) ==
    ~(IsZero(q.w) /\ IsZero(q.x) /\ IsZero(q.y) /\ IsZero(q.z))

NonZeroVector(v) == ~(IsZero(v.x) /\ IsZero(v.y) /\ IsZero(v.z))

\* w^2 + x^2 + y^2 + z^2
SumOfSquares(q) ==
    NumAdd(NumAdd(NumAdd(NumMul(q.w, q.w), NumMul(q.x, q.x)),
                  NumMul(q.y, q.y)), NumMul(q.z, q.z))

(***************************************************************************)
(* C1.  p.multiply(q) is the Hamilton product in that operand order:       *)
(*   w' = w1*w2 - x1*x2 - y1*y2 - z1*z2                                    *)
(*   x' = w1*x2 + x1*w2 + y1*z2 - z1*y2                                    *)
(*   y' = w1*y2 - x1*z2 + y1*w2 + z1*x2                                    *)
(*   z' = w1*z2 + x1*y2 - y1*x2 + z1*w2                                    *)
(* and (1,2,3,4)*(-4,3,-2,1) = (-8,6,-4,-28) while the reversed product is *)
(* (-8,-16,-24,-2).  The operands are integer quaternions, so the four     *)
(* formulas are evaluated on the integers.                                 *)
(***************************************************************************)
HamiltonOnIntegers(p, q) ==
    LET w1 == p.w.n  x1 == p.x.n  y1 == p.y.n  z1 == p.z.n
        w2 == q.w.n  x2 == q.x.n  y2 == q.y.n  z2 == q.z.n
    IN  IntQ(w1 * w2 - x1 * x2 - y1 * y2 - z1 * z2,
             w1 * x2 + x1 * w2 + y1 * z2 - z1 * y2,
             w1 * y2 - x1 * z2 + y1 * w2 + z1 * x2,
             w1 * z2 + x1 * y2 - y1 * x2 + z1 * w2)

C1_HamiltonProduct ==
    op = "multiply" =>
        /\ result = Return(HamiltonOnIntegers(self, other))
        /\ (self = IntQ(1, 2, 3, 4) /\ other = IntQ(-4, 3, -2, 1)
              => result.val = IntQ(-8, 6, -4, -28))
        /\ (self = IntQ(-4, 3, -2, 1) /\ other = IntQ(1, 2, 3, 4)
              => result.val = IntQ(-8, -16, -24, -2))

C1_Witness ==
    /\ op = "multiply"
    /\ self = IntQ(1, 2, 3, 4)
    /\ other = IntQ(-4, 3, -2, 1)
    /\ result = Return(IntQ(-8, 6, -4, -28))

(***************************************************************************)
(* C2.  For a nonzero q, q.transform(v) is the vector part of              *)
(* n * p * conjugate(n) with p = Quaternion(0, v.x, v.y, v.z) and          *)
(* n = q / norm(q), whichever branch computes it; and for a q of norm 1    *)
(* the two branches give the same vector.                                  *)
(***************************************************************************)
NormalizedSandwich(q, v) ==
    LET n == Quaternion_scale(q, NumDiv(PyInt(1), Quaternion_norm(q)))
        p == Quaternion(PyInt(0), v.x, v.y, v.z)
        t == Quaternion_multiply(Quaternion_multiply(n, p),
                                 Quaternion_conjugate(n))
    IN  Vector3(t.x, t.y, t.z)

C2_TransformIsNormalizedRotation ==
    op = "transform" /\ NonZeroQuaternion(self) =>
        /\ Returned(result)
        /\ SameVector(result.val, NormalizedSandwich(self, other))
        /\ (NumEq(Quaternion_norm(self), PyInt(1)) =>
              LET p == Quaternion(PyInt(0), other.x, other.y, other.z)
                  a == TransformByInverse(self, p)
                  b == TransformByConjugate(self, p)
              IN  Returned(a) /\ Returned(b) /\ SameQuaternion(a.val, b.val))

C2_Witness ==
    /\ op = "transform"
    /\ self = IntQ(1, 2, 3, 4)
    /\ other = IntV(2, 2, 2)
    /\ result = Return(Vector3(PyFloat(2, 5), PyFloat(2, 1), PyFloat(14, 5)))

(***************************************************************************)
(* C3.  Quaternion equality is component-wise: p == q is true exactly when *)
(* the four components are equal, and p != q is true exactly when some     *)
(* component differs.                                                      *)
(***************************************************************************)
C3_EqualityIsComponentwise ==
    self.type = "Quaternion" /\ other.type = "Quaternion" =>
        /\ (op = "==" => (IsTrue(result.val) <=> SameQuaternion(self, other)))
        /\ (op = "!=" => (IsTrue(result.val) <=> ~SameQuaternion(self, other)))

(***************************************************************************)
(* C4.  For a nonzero axis, from_axis_angle(axis, angle) raises nothing    *)
(* and returns (cos(angle/2), sin(angle/2)*u) with u the axis if it has    *)
(* length 1 and the normalized axis otherwise.                             *)
(***************************************************************************)
AxisAngleQuaternion(u, angle_) ==
    Quaternion(Cos(angle_.pi), NumMul(Sin(angle_.pi), u.x),
               NumMul(Sin(angle_.pi), u.y), NumMul(Sin(angle_.pi), u.z))

UnitAxis(axis) ==
    IF NumEq(Vector3__abs__(axis), PyInt(1)) THEN axis
    ELSE Vector3_normalize(axis).val

C4_FromAxisAngleReturns ==
    op = "from_axis_angle" /\ NonZeroVector(other) =>
        /\ Returned(result)
        /\ SameQuaternion(result.val, AxisAngleQuaternion(UnitAxis(other), arg))

(***************************************************************************)
(* C5.  For a nonzero q, q.inverse() is the conjugate scaled by            *)
(* 1/norm(q)^2 and q.multiply(q.inverse()) is the identity (1,0,0,0);      *)
(* q.multiply(q.conjugate()) is (w^2+x^2+y^2+z^2, 0, 0, 0).                *)
(***************************************************************************)
C5_InverseIsRightInverse ==
    op = "inverse" /\ NonZeroQuaternion(self) =>
        /\ Returned(result)
        /\ SameQuaternion(Quaternion_multiply(self, result.val),
                          IntQ(1, 0, 0, 0))
        /\ LET k == NumDiv(PyInt(1), SumOfSquares(self))
           IN  SameQuaternion(result.val,
                              Quaternion(NumMul(self.w, k),
                                         NumNeg(NumMul(self.x, k)),
                                         NumNeg(NumMul(self.y, k)),
                                         NumNeg(NumMul(self.z, k))))
        /\ LET c == Quaternion_multiply(self, Quaternion_conjugate(self))
           IN  /\ NumEq(c.w, SumOfSquares(self))
               /\ IsZero(c.x) /\ IsZero(c.y) /\ IsZero(c.z)

C5_Witness ==
    /\ op = "inverse"
    /\ self = IntQ(1, 2, 3, 4)
    /\ result = Return(Quaternion(PyFloat(1, 30), PyFloat(-1, 15),
                                  PyFloat(-1, 10), PyFloat(-2, 15)))


(***************************************************************************)
(* C6.  Quaternion's * dispatches on the type of the other operand:        *)
(* q * s and s * q are q.scale(s) for a scalar s; q * v is                 *)
(* q.multiply(Quaternion(0, v.x, v.y, v.z)) for a Vector3 v; p * q is      *)
(* p.multiply(q), and the reflected method computes other.multiply(self);  *)
(* for any other operand type __mul__ and __rmul__ return NotImplemented   *)
(* and the operator does not produce a Quaternion.                         *)
(***************************************************************************)
AsPureQuaternion(v) == Quaternion(PyInt(0), v.x, v.y, v.z)

IsQuaternionResult(o) == Returned(o) /\ o.val.type = "Quaternion"

C6_StarDispatch ==
    /\ op = "Quaternion.__mul__" =>
         /\ IsNumber(other) => result = Return(Quaternion_scale(self, other))
         /\ other.type = "Vector3" =>
              result = Return(Quaternion_multiply(self, AsPureQuaternion(other)))
         /\ other.type = "Quaternion" =>
              result = Return(Quaternion_multiply(self, other))
         /\ ~IsNumber(other) /\ other.type \notin {"Vector3", "Quaternion"} =>
              result = Return(NotImplemented)
    /\ op = "Quaternion.__rmul__" =>
         /\ IsNumber(other) => result = Return(Quaternion_scale(self, other))
         /\ other.type = "Quaternion" =>
              result = Return(Quaternion_multiply(other, self))
         /\ ~IsNumber(other) /\ other.type # "Quaternion" =>
              result = Return(NotImplemented)
    /\ op = "*" /\ self.type = "Quaternion" =>
         /\ IsNumber(other) => result = Return(Quaternion_scale(self, other))
         /\ other.type = "Vector3" =>
              result = Return(Quaternion_multiply(self, AsPureQuaternion(other)))
         /\ other.type = "Quaternion" =>
              result = Return(Quaternion_multiply(self, other))
         /\ ~IsNumber(other) /\ other.type \notin {"Vector3", "Quaternion"} =>
              ~IsQuaternionResult(result)
    /\ op = "*" /\ other.type = "Quaternion" =>
         /\ IsNumber(self) => result = Return(Quaternion_scale(other, self))
         /\ ~IsNumber(self) /\ self.type \notin {"Vector3", "Quaternion"} =>
              ~IsQuaternionResult(result)

C6_Witness ==
    /\ op = "Quaternion.__rmul__"
    /\ self = IntQ(-4, 3, -2, 1)
    /\ other = IntQ(1, 2, 3, 4)
    /\ result = Return(IntQ(-8, 6, -4, -28))

(***************************************************************************)
(* C7.  Vector3.norm(kind) is the sum of the absolute components for       *)
(* kind = 1, the Euclidean length for kind = 2, the largest absolute       *)
(* component for kind = "inf", and an error for every other kind: no value *)
(* outside {1, 2, "inf"} yields a norm.                                    *)
(***************************************************************************)
C7_NormRejectsOtherKinds ==
    op = "norm" =>
        IF arg = PyInt(1)
        THEN result = Return(NumAdd(NumAdd(NumAbs(self.x), NumAbs(self.y)),
                                    NumAbs(self.z)))
        ELSE IF arg = PyInt(2)
        THEN /\ Returned(result)
             /\ ~(result.val.n < 0)
             /\ NumEq(NumSquare(result.val), Vector3_dot(self, self))
        ELSE IF arg = PyStr("inf")
        THEN result = Return(NumMax3(NumAbs(self.x), NumAbs(self.y),
                                     NumAbs(self.z)))
        ELSE ~Returned(result)

(***************************************************************************)
(* C8.  Vector3.angle(other, unit) and angle(v1, v2, unit) raise           *)
(* ValueError when unit is a string other than "rad" and "deg" and         *)
(* TypeError when unit is not a string, whatever the vectors (zero-length  *)
(* ones included), and the two forms have the same outcome.                *)
(***************************************************************************)
C8_UnitCheckDecides ==
    op \in {"angle", "angle()"} =>
        /\ arg.type = "str" /\ arg.s \notin {"rad", "deg"} =>
             result = Raise("ValueError")
        /\ arg.type # "str" => result = Raise("TypeError")
        /\ Vector3_angle(self, other, arg) = angle(self, other, arg)

(***************************************************************************)
(* C9.  Multiplying a Vector3 with * by an operand that is not a scalar    *)
(* signals the not-supported outcome: __mul__ and __rmul__ return          *)
(* NotImplemented, the operator raises TypeError, and no Vector3 is        *)
(* returned.                                                               *)
(***************************************************************************)
C9_VectorTimesNonScalar ==
    /\ op \in {"Vector3.__mul__", "Vector3.__rmul__"} /\ ~IsNumber(other) =>
         result = Return(NotImplemented)
    /\ op = "*" /\ self.type = "Vector3" /\ ~IsNumber(other) =>
         result = Raise("TypeError")
    /\ op = "*" /\ other.type = "Vector3" /\ self.type \in {"str", "NoneType"} =>
         result = Raise("TypeError")

(***************************************************************************)
(* C10.  a.cross(b) == -(b.cross(a)), with Vector3's == and unary -, and   *)
(* a.cross(b) is (y1*z2 - z1*y2, z1*x2 - x1*z2, x1*y2 - y1*x2).            *)
(***************************************************************************)
C10_CrossAntiCommutes ==
    op = "cross" =>
        /\ Returned(result)
        /\ IsTrue(PyEq(result.val,
                       Vector3__neg__(Vector3_cross(other, self))))
        /\ NumEq(result.val.x, NumSub(NumMul(self.y, other.z),
                                      NumMul(self.z, other.y)))
        /\ NumEq(result.val.y, NumSub(NumMul(self.z, other.x),
                                      NumMul(self.x, other.z)))
        /\ NumEq(result.val.z, NumSub(NumMul(self.x, other.y),
                                      NumMul(self.y, other.x)))

C10_Witness ==
    /\ op = "cross"
    /\ self = IntV(1, 0, 0)
    /\ other = IntV(0, 1, 0)
    /\ result = Return(IntV(0, 0, 1))


(***************************************************************************)
(* from_plane against the exact cross product.  Coordinates, edges and     *)
(* products are taken exactly, as polynomials in 2^-53 (integers are the   *)
(* constant polynomials).  Three points are collinear when some integer    *)
(* combination a*(p2-p1) = b*(p3-p1), a and b not both 0, holds (a >= 0   *)
(* loses nothing: negate both); for                                        *)
(* integer points coefficients up to the largest edge component suffice.   *)
(***************************************************************************)
PointAt(k) == arg.items[k].items

IntegerPoints ==
    \A k \in 1..3 : \A i \in 1..3 : PointAt(k)[i].type = "int"

Canon(p) == <<p[1]>> \o StripZeros(Tail(p))

PolySub(p, q) == Canon(PolyAdd(p, PolyNeg(q)))

Edge(p, q) == [i \in 1..3 |-> PolySub(Poly(q[i]), Poly(p[i]))]

ExactCross(a, b) ==
    <<PolySub(PolyMul(a[2], b[3]), PolyMul(a[3], b[2])),
      PolySub(PolyMul(a[3], b[1]), PolyMul(a[1], b[3])),
      PolySub(PolyMul(a[1], b[2]), PolyMul(a[2], b[1]))>>

MaxEdge == 2 * MaxAbsSum

\* a * e = b * f for integers a >= 0 and b, not both 0
Parallel(e, f) ==
    \E a \in 0..MaxEdge, b \in (-MaxEdge)..MaxEdge :
        /\ a # 0 \/ b # 0
        /\ \A i \in 1..3 :
            \A k \in DOMAIN e[i] \cup DOMAIN f[i] :
                a * PolyAt(e[i], k) = b * PolyAt(f[i], k)

Collinear(p1, p2, p3) ==
    \E e \in {Edge(p1, p2)}, f \in {Edge(p1, p3)} : Parallel(e, f)

\* the returned vector has exactly the components c (three polynomials)
ReturnsVector(c) ==
    /\ Returned(result)
    /\ result.val.type = "Vector3"
    /\ Poly(result.val.x) = c[1]
    /\ Poly(result.val.y) = c[2]
    /\ Poly(result.val.z) = c[3]

PlaneExample ==
    /\ PointAt(1) = <<PyInt(0), PyInt(0), PyInt(0)>>
    /\ PointAt(2) = <<PyInt(1), PyInt(0), PyInt(0)>>
    /\ PointAt(3) = <<PyInt(0), PyInt(0), PyInt(1)>>

(***************************************************************************)
(* C11 as stated.  Vector3.from_plane(p1, p2, p3) is the cross product of  *)
(* the edges p2 - p1 and p3 - p1 (so (0,0,0), (1,0,0), (0,0,1) give        *)
(* (0,-1,0)), and for every collinear triple, coincident points included,  *)
(* it returns (0,0,0) and raises nothing.  The first part is taken on      *)
(* integer coordinates, where the code's arithmetic is exact; the second   *)
(* on every triple, as stated.                                             *)
(***************************************************************************)
C11_FromPlaneIsEdgeCross ==
    op = "from_plane" =>
        /\ Returned(result)
        /\ IntegerPoints =>
              ReturnsVector(ExactCross(Edge(PointAt(1), PointAt(2)),
                                       Edge(PointAt(1), PointAt(3))))
        /\ (Collinear(PointAt(1), PointAt(2), PointAt(3))
              => ReturnsVector(<<(<<0>>), (<<0>>), (<<0>>)>>))
        /\ (PlaneExample => result = Return(IntV(0, -1, 0)))

(***************************************************************************)
(* C11 amended.  from_plane returns a vector and raises nothing; when the  *)
(* coordinates are integers the vector is the exact cross product of the   *)
(* edges p2 - p1 and p3 - p1, with integer components (so (0,0,0),         *)
(* (1,0,0), (0,0,1) give (0,-1,0)), and it is (0,0,0) for every collinear  *)
(* triple of integer points, coincident points included.                   *)
(***************************************************************************)
C11_FromPlaneOnIntegerPoints ==
    op = "from_plane" =>
        /\ Returned(result)
        /\ result.val.type = "Vector3"
        /\ IntegerPoints =>
            /\ ReturnsVector(ExactCross(Edge(PointAt(1), PointAt(2)),
                                        Edge(PointAt(1), PointAt(3))))
            /\ \A c \in {result.val.x, result.val.y, result.val.z} :
                c.type = "int"
            /\ (Collinear(PointAt(1), PointAt(2), PointAt(3))
                  => result = Return(IntV(0, 0, 0)))
            /\ (PlaneExample => result = Return(IntV(0, -1, 0)))

C11_Witness ==
    /\ op = "from_plane"
    /\ PointAt(1) = <<PyInt(-1), PyInt(1), PyInt(0)>>
    /\ PointAt(2) = <<PyInt(0), PyInt(0), PyInt(0)>>
    /\ PointAt(3) = <<PyInt(1), PyInt(-1), PyInt(0)>>
    /\ Collinear(PointAt(1), PointAt(2), PointAt(3))
    /\ result = Return(IntV(0, 0, 0))

(***************************************************************************)
(* C12.  No operation of Vector3 or Quaternion changes the components of   *)
(* its receiver or of an argument: in every step of every sequence of      *)
(* calls each instance constructed before the step is still there with     *)
(* the components it had, an instance returned by the step is a new one    *)
(* (it did not exist before the step), and copy() returns an instance      *)
(* distinct from its receiver with the receiver's components.              *)
(***************************************************************************)
ReturnsInstance(r) == Returned(r) /\ IsRef(r.val)

C12_OperationsLeaveInstancesAlone ==
    [][/\ \A i \in DOMAIN heap : i \in DOMAIN heap' /\ heap'[i] = heap[i]
       /\ ReturnsInstance(result') =>
            /\ result'.val.id \notin DOMAIN heap
            /\ result'.val.id \in DOMAIN heap'
       /\ op' = "copy" =>
            /\ ReturnsInstance(result')
            /\ result'.val.id # self'.id
            /\ heap'[result'.val.id] = heap'[self'.id]]_vars

\* the copy of an instance that an earlier call returned
C12_Witness ==
    /\ op = "copy"
    /\ Len(heap) = 3
    /\ self = Ref(2)
    /\ result = Return(Ref(3))
    /\ heap[3] = heap[2]
    /\ heap[2] # heap[1]

====
